---- MODULE Spec2Model ----
(***************************************************************************)
(* Model of the Resolve Fitness lead agent (src/main.py): the lead scorer, *)
(* the merge of scraped leads into the store, the outreach pass and the    *)
(* persistence of the store, as run by run_daily_cycle.                    *)
(*                                                                         *)
(* Strings are sequences of one-character strings, so that lower(),        *)
(* replace() and the `in` substring test are computed, not assumed.  The   *)
(* configured keyword lists and the sample posts are abbreviated to short  *)
(* strings over a small alphabet; their structure (lists per tier, a       *)
(* demographic token that is a substring of a high-priority keyword, a     *)
(* keyword with a space in it) follows the default configuration.          *)
(***************************************************************************)
EXTENDS Integers, Sequences, FiniteSets, TLC

VARIABLES
    config,        \* self.config: target lists, scoring weights, automation settings
    s_pc,          \* scorer harness: "input" before the call, "scored" after it
    s_args,        \* scorer harness: the arguments of score_lead
    s_result,      \* scorer harness: the (score, tags) pair returned
    m_pc,          \* merge harness: "input" before the merge, "merged" after it
    m_existing,    \* merge harness: self.leads before the merge
    m_incoming,    \* merge harness: all_new_leads
    m_result,      \* merge harness: self.leads after the merge
    pc,            \* position inside run_daily_cycle / between cycles
    leads,         \* self.leads
    file,          \* leads.json: [kind |-> "absent" | "malformed" | "list", data |-> ...]
    batch,         \* reddit_leads + facebook_leads + linkedin_leads gathered so far
    queue,         \* high_priority_leads still to be sent (indices into self.leads)
    now,           \* the day datetime.now() falls on
    result,        \* what run_daily_cycle gave its caller: "none" | "report" | "raised"
    log,           \* the logger.error / logger.warning events of the current cycle
    sent,          \* indices of self.leads handed to send_outreach in this cycle, in order
    failed,        \* profile_urls whose send failed in this cycle
    failedPrev,    \* profile_urls whose send failed in the previous cycle
    everContacted, \* profile_urls a send_outreach has succeeded for, over all cycles
    saveOutcome,   \* how save_leads ended in this cycle: "none" | "ok" | "open_error" | "write_error"
    prevOutcome    \* how the previous call of run_daily_cycle ended: "none" | "done" | "raised"

vars == <<config, s_pc, s_args, s_result, m_pc, m_existing, m_incoming, m_result,
          pc, leads, file, batch, queue, now, result, log, sent, failed,
          failedPrev, everContacted, saveOutcome,
               prevOutcome>>

scoreVars == <<s_pc, s_args, s_result>>
mergeVars == <<m_pc, m_existing, m_incoming, m_result>>
cycleVars == <<pc, leads, file, batch, queue, now, result, log, sent, failed,
               failedPrev, everContacted, saveOutcome,
               prevOutcome>>

(***************************************************************************)
(* Bounds of the model.                                                    *)
(***************************************************************************)
MaxLen == 3          \* longest content string given to score_lead
MaxBatch == 2        \* longest existing store / incoming batch given to the merge
MaxDay == 3          \* last day on which a cycle starts
MaxOutreachCap == 2  \* largest configured max_outreach_per_day
RetentionDays == 1   \* the retention window the specification speaks of
MaxStoreSize == 2    \* the maximum store size the specification speaks of

(***************************************************************************)
(* Strings.                                                                *)
(***************************************************************************)
Min(a, b) == IF a < b THEN a ELSE b

Alphabet == {"t", " ", "g", "k", "n", "?", "T"}

\* str.lower(), one character
LowerChar(c) == IF c = "T" THEN "t" ELSE c

\* str.lower()
Lower(s) == [i \in 1..Len(s) |-> LowerChar(s[i])]

\* str.replace(' ', '_')
ReplaceSpaces(s) == [i \in 1..Len(s) |-> IF s[i] = " " THEN "_" ELSE s[i]]

\* `k in s` on strings
IsSubstr(k, s) ==
    \E i \in 1..(Len(s) - Len(k) + 1) : SubSeq(s, i, i + Len(k) - 1) = k

Strings(n) == UNION {[1..m -> Alphabet] : m \in 0..n}

(***************************************************************************)
(* Configuration (load_config).  The lists are the default lists,          *)
(* abbreviated; the scoring weights and max_outreach_per_day are read from *)
(* config.json and so range over several configurations.                   *)
(***************************************************************************)
Platforms == {"reddit", "facebook", "linkedin"}

\* default_config["target_keywords"], ["target_locations"], ["target_demographics"]
DefaultTargets ==
    [ high_priority   |-> << <<"t", " ">>, <<" ", "g">> >>,
      medium_priority |-> << <<"t", "t">> >>,
      locations       |-> << <<"k">> >>,
      demographics    |-> << <<"g">> >> ]

\* default_config["scoring_weights"]
DefaultWeights ==
    [ high_priority_keywords   |-> 15,
      medium_priority_keywords |-> 8,
      location_match           |-> 10,
      demographic_match        |-> 12,
      urgency_indicators       |-> 8,
      platform_bonus           |-> [p \in Platforms |->
                                      CASE p = "reddit" -> 3
                                        [] p = "facebook" -> 5
                                        [] p = "linkedin" -> 7] ]

\* scoring weights a config.json may set instead (any integers)
HeavyWeights == [DefaultWeights EXCEPT !.high_priority_keywords = 60,
                                       !.demographic_match = 45]
NegativeWeights == [DefaultWeights EXCEPT !.high_priority_keywords = -15,
                                          !.urgency_indicators = -8]

WeightSets == {DefaultWeights, HeavyWeights, NegativeWeights}

Configs(weightSets, caps) ==
    [ targets              : {DefaultTargets},
      scoring_weights      : weightSets,
      max_outreach_per_day : caps ]

\* urgency_words of score_lead
urgency_words == << <<"n">>, <<"k", "n">> >>

\* the question indicators of score_lead
question_indicators == << <<"?">>, <<"n", " ">> >>

QuestionBonus == 5
ScoreCap == 100

(***************************************************************************)
(* score_lead.                                                             *)
(***************************************************************************)
Range(f) == {f[i] : i \in DOMAIN f}

\* Each `for keyword in list: if <test>: score += weight; tags.append(...)` loop is
\* modelled by the keywords of the list that pass the test, in list order.
\* a loop that stops at its first matching keyword
HighHits_FirstOnly(cfg, content_lower) ==
    LET all == SelectSeq(cfg.targets.high_priority, LAMBDA k : IsSubstr(k, content_lower))
    IN  IF all = <<>> THEN <<>> ELSE <<Head(all)>>

HighHits(cfg, content_lower) ==
    SelectSeq(cfg.targets.high_priority, LAMBDA k : IsSubstr(k, content_lower))

MediumHits(cfg, content_lower) ==
    SelectSeq(cfg.targets.medium_priority, LAMBDA k : IsSubstr(k, content_lower))

LocationHits(cfg, content_lower, location) ==
    SelectSeq(cfg.targets.locations,
             LAMBDA k : IsSubstr(k, content_lower) \/ IsSubstr(k, Lower(location)))

DemographicHits(cfg, content_lower, demographics) ==
    SelectSeq(cfg.targets.demographics,
             LAMBDA k : IsSubstr(k, content_lower) \/ IsSubstr(k, Lower(demographics)))

\* self.config["scoring_weights"]["platform_bonus"].get(platform, 0)
PlatformBonus(cfg, platform) ==
    IF platform \in DOMAIN cfg.scoring_weights.platform_bonus
    THEN cfg.scoring_weights.platform_bonus[platform]
    ELSE 0

\* the urgency loop adds its weight once and breaks
IsUrgent(content_lower) == \E i \in DOMAIN urgency_words : IsSubstr(urgency_words[i], content_lower)

IsQuestion(content_lower) ==
    \E i \in DOMAIN question_indicators : IsSubstr(question_indicators[i], content_lower)

\* the local variable `score` of score_lead when it reaches its return statement
ScoreSum(cfg, content, platform, location, demographics) ==
    LET content_lower == Lower(content)
        w == cfg.scoring_weights
    IN    w.high_priority_keywords * Len(HighHits(cfg, content_lower))
        + w.medium_priority_keywords * Len(MediumHits(cfg, content_lower))
        + w.location_match * Len(LocationHits(cfg, content_lower, location))
        + w.demographic_match * Len(DemographicHits(cfg, content_lower, demographics))
        + PlatformBonus(cfg, platform)
        + (IF IsUrgent(content_lower) THEN w.urgency_indicators ELSE 0)
        + (IF IsQuestion(content_lower) THEN QuestionBonus ELSE 0)

TagsFor(prefix, hits, replace) ==
    [i \in 1..Len(hits) |->
        <<prefix>> \o (IF replace THEN ReplaceSpaces(hits[i]) ELSE hits[i])]

\* the local variable `tags` of score_lead when it reaches its return statement
ScoreTags(cfg, content, platform, location, demographics) ==
    LET content_lower == Lower(content)
    IN    TagsFor("high_priority_", HighHits(cfg, content_lower), TRUE)
       \o TagsFor("medium_priority_", MediumHits(cfg, content_lower), TRUE)
       \o TagsFor("location_", LocationHits(cfg, content_lower, location), FALSE)
       \o TagsFor("demographic_", DemographicHits(cfg, content_lower, demographics), FALSE)
       \o (IF IsUrgent(content_lower) THEN << <<"urgent">> >> ELSE <<>>)
       \o (IF IsQuestion(content_lower) THEN << <<"asking_for_help">> >> ELSE <<>>)

\* return min(score, 100), tags
Clamp(score) == Min(score, ScoreCap)

score_lead(cfg, content, platform, location, demographics) ==
    [ score |-> Clamp(ScoreSum(cfg, content, platform, location, demographics)),
      tags  |-> ScoreTags(cfg, content, platform, location, demographics) ]

\* extract_location_from_content
extract_location_from_content(cfg, content) ==
    LET hits == SelectSeq(cfg.targets.locations, LAMBDA k : IsSubstr(k, Lower(content)))
    IN  IF hits = <<>> THEN <<"j">> ELSE Head(hits)

(***************************************************************************)
(* The values the variables of the other parts hold while one part runs.   *)
(***************************************************************************)
NoFile == [kind |-> "absent", data |-> <<>>]

ScoreIdle == s_pc = "off" /\ s_args = <<>> /\ s_result = <<>>

MergeIdle == m_pc = "off" /\ m_existing = <<>> /\ m_incoming = <<>> /\ m_result = <<>>

CycleIdle ==
    /\ pc = "off" /\ leads = <<>> /\ file = NoFile /\ batch = <<>> /\ queue = <<>>
    /\ now = 0 /\ result = "none" /\ log = {} /\ sent = <<>> /\ failed = {}
    /\ failedPrev = {} /\ everContacted = {}
    /\ saveOutcome = "none"
    /\ prevOutcome = "none"

(***************************************************************************)
(* The scorer on its own: score_lead applied to every small input under    *)
(* every weight configuration.                                             *)
(***************************************************************************)
ScoreArgs ==
    [ content      : Strings(MaxLen),
      platform     : {"reddit", "linkedin", "other"},
      location     : {<<>>, <<"k">>},
      demographics : {<<>>, <<"g">>} ]

ScoreInit ==
    /\ config \in Configs(WeightSets, {MaxOutreachCap})
    /\ s_pc = "input"
    /\ s_args \in ScoreArgs
    /\ s_result = <<>>
    /\ MergeIdle
    /\ CycleIdle

CallScoreLead ==
    /\ s_pc = "input"
    /\ s_pc' = "scored"
    /\ s_result' = score_lead(config, s_args.content, s_args.platform,
                              s_args.location, s_args.demographics)
    /\ UNCHANGED <<config, s_args, mergeVars, cycleVars>>

ScoreNext == CallScoreLead

ScoreSpec == ScoreInit /\ [][ScoreNext]_vars

(***************************************************************************)
(* Leads.  A timestamp is the day it was taken on; 0 is the empty string.  *)
(***************************************************************************)
HighPriorityThreshold == 20

\* Lead.__post_init__ applied to the given fields
Lead(name, platform, profile_url, content, score, status, created_at, last_contact, today) ==
    [ name         |-> name,
      platform     |-> platform,
      profile_url  |-> profile_url,
      content      |-> content,
      score        |-> score,
      status       |-> status,
      created_at   |-> IF created_at = 0 THEN today ELSE created_at,
      last_contact |-> last_contact ]

\* sample_leads_data of generate_realistic_leads, abbreviated: per platform a list
\* of posts with pairwise distinct profile_urls
sample_leads_data ==
    [ reddit   |-> << [name |-> "r1", content |-> <<"T", " ", "g">>, profile_url |-> "R1"],
                      [name |-> "r2", content |-> <<"t", "t", "?">>, profile_url |-> "R2"] >>,
      facebook |-> << [name |-> "f1", content |-> <<"k", "g">>, profile_url |-> "F1"] >>,
      linkedin |-> << [name |-> "l1", content |-> <<"n", "g">>, profile_url |-> "L1"] >> ]

\* the lead generate_realistic_leads builds from one post
LeadFromPost(cfg, platform, post, today) ==
    LET location == extract_location_from_content(cfg, post.content)
        scored == score_lead(cfg, post.content, platform, location, <<>>)
    IN  Lead(post.name, platform, post.profile_url, post.content, scored.score,
             "new", today, 0, today)

\* random.sample(population, k): the sequences of k distinct positions
Samples(n, k) ==
    {s \in [1..k -> 1..n] : \A i, j \in 1..k : i # j => s[i] # s[j]}

\* generate_realistic_leads(platform, count): the lists it can return
generate_realistic_leads(cfg, platform, count, today) ==
    LET platform_data == sample_leads_data[platform]
        k == Min(count, Len(platform_data))
    IN  { [i \in 1..k |-> LeadFromPost(cfg, platform, platform_data[pick[i]], today)] :
            pick \in Samples(Len(platform_data), k) }

(***************************************************************************)
(* The merge of run_daily_cycle: drop incoming leads whose profile_url is  *)
(* in the store, append the rest.                                          *)
(***************************************************************************)
ExistingUrls(existing) == {existing[i].profile_url : i \in DOMAIN existing}

\* a merge that appends the whole batch
NewLeads_Unfiltered(existing, incoming) == incoming

NewLeads(existing, incoming) ==
    SelectSeq(incoming, LAMBDA l : l.profile_url \notin ExistingUrls(existing))

\* a merge that puts the new leads in front of the store
Merge_Prepend(existing, incoming) == NewLeads(existing, incoming) \o existing

\* self.leads.extend(new_leads)
Merge(existing, incoming) == existing \o NewLeads(existing, incoming)

NoDuplicateUrls(store) ==
    \A i, j \in DOMAIN store : i # j => store[i].profile_url # store[j].profile_url

CountUrl(store, u) == Cardinality({i \in DOMAIN store : store[i].profile_url = u})

(***************************************************************************)
(* The merge on its own: applied to every small duplicate-free store and   *)
(* every small incoming batch.                                             *)
(***************************************************************************)
SeqsUpTo(S, n) == UNION {[1..m -> S] : m \in 0..n}

HarnessPosts == {sample_leads_data.reddit[1], sample_leads_data.reddit[2],
                 sample_leads_data.facebook[1]}

\* leads a store can hold on day 2: created on day 1, new or contacted
StoredLeads ==
    { Lead(p.name, "reddit", p.profile_url, p.content, 30, st, 1,
           IF st = "contacted" THEN 1 ELSE 0, 1) :
        p \in HarnessPosts, st \in {"new", "contacted"} }

\* leads scraped on day 2
FreshLeads ==
    { Lead(p.name, "reddit", p.profile_url, p.content, 40, "new", 2, 0, 2) :
        p \in HarnessPosts }

MergeInit ==
    /\ config \in Configs({DefaultWeights}, {MaxOutreachCap})
    /\ m_pc = "input"
    /\ m_existing \in {s \in SeqsUpTo(StoredLeads, MaxBatch) : NoDuplicateUrls(s)}
    /\ m_incoming \in SeqsUpTo(FreshLeads, MaxBatch)
    /\ m_result = <<>>
    /\ ScoreIdle
    /\ CycleIdle

CallMerge ==
    /\ m_pc = "input"
    /\ m_pc' = "merged"
    /\ m_result' = Merge(m_existing, m_incoming)
    /\ UNCHANGED <<config, m_existing, m_incoming, scoreVars, cycleVars>>

MergeNext == CallMerge

MergeSpec == MergeInit /\ [][MergeNext]_vars

(***************************************************************************)
(* The daily cycle (run_daily_cycle, repeated by run_continuous or by a    *)
(* scheduler re-invoking main).                                            *)
(***************************************************************************)
\* load_leads: [Lead(**lead) for lead in leads_data], [] for no file or a malformed one
load_leads(f, today) ==
    IF f.kind = "list"
    THEN [i \in 1..Len(f.data) |->
            LET d == f.data[i]
            IN  Lead(d.name, d.platform, d.profile_url, d.content, d.score, d.status,
                     d.created_at, d.last_contact, today)]
    ELSE <<>>

\* a selection that takes every new lead, whatever its score
Eligible_AnyScore(store) == {i \in DOMAIN store : store[i].status = "new"}

\* the list comprehension of process_high_priority_leads, as positions in self.leads
Eligible(store) ==
    {i \in DOMAIN store : store[i].score >= HighPriorityThreshold /\ store[i].status = "new"}

\* list.sort(key=score, reverse=True) is stable: ties keep their store order
RECURSIVE SortByScore(_, _)
SortByScore(store, idx) ==
    IF idx = {} THEN <<>>
    ELSE LET best == CHOOSE i \in idx :
                        \A j \in idx : \/ store[i].score > store[j].score
                                       \/ store[i].score = store[j].score /\ i <= j
         IN  <<best>> \o SortByScore(store, idx \ {best})

\* a selection that forgets the daily cap
Slice_NoCap(seq, n) == seq

\* high_priority_leads[:max_outreach]
Slice(seq, n) ==
    IF n >= 0 THEN SubSeq(seq, 1, Min(n, Len(seq)))
    ELSE SubSeq(seq, 1, Len(seq) + n)

HighPriorityLeads(cfg, store) ==
    Slice(SortByScore(store, Eligible(store)), cfg.max_outreach_per_day)

\* a send that marks the lead contacted and forgets the contact time
Contacted_StatusOnly(lead, today) == [lead EXCEPT !.status = "contacted"]

\* the assignments of a successful send_outreach
Contacted(lead, today) == [lead EXCEPT !.status = "contacted", !.last_contact = today]

Init ==
    /\ config \in Configs({DefaultWeights}, 0..MaxOutreachCap)
    /\ pc = "idle"
    /\ leads = <<>>
    /\ file = NoFile
    /\ batch = <<>>
    /\ queue = <<>>
    /\ now = 1
    /\ result = "none"
    /\ log = {}
    /\ sent = <<>>
    /\ failed = {}
    /\ failedPrev = {}
    /\ everContacted = {}
    /\ saveOutcome = "none"
    /\ prevOutcome = "none"
    /\ ScoreIdle
    /\ MergeIdle

frame == <<config, scoreVars, mergeVars>>

\* a load that swallows the decode error without a log entry
LoadLog_Silent(f) == {}

\* what load_leads logs: logger.error in its except branch, nothing otherwise
LoadLog(f) == IF f.kind = "malformed" THEN {"load_error"} ELSE {}

\* self.leads = self.load_leads()
LoadLeads ==
    /\ pc = "idle"
    /\ leads' = load_leads(file, now)
    /\ log' = LoadLog(file)
    /\ pc' = "scrape_reddit"
    /\ UNCHANGED <<file, batch, queue, now, result, sent, failed, failedPrev,
                   everContacted, saveOutcome,
                   prevOutcome, frame>>

\* open() of the leads file raises an OSError: load_leads does not catch it,
\* run_daily_cycle logs it and re-raises
LoadRaises ==
    /\ pc = "idle"
    /\ file.kind # "absent"
    /\ log' = {"cycle_error"}
    /\ result' = "raised"
    /\ pc' = "raised"
    /\ UNCHANGED <<leads, file, batch, queue, now, sent, failed, failedPrev,
                   everContacted, saveOutcome,
                   prevOutcome, frame>>

Scrape(platform, counts, next) ==
    /\ \E count \in counts :
         \E found \in generate_realistic_leads(config, platform, count, now) :
            batch' = batch \o found
    /\ pc' = next
    /\ UNCHANGED <<leads, file, queue, now, result, log, sent, failed, failedPrev,
                   everContacted, saveOutcome,
                   prevOutcome, frame>>

\* a cycle that merges as soon as the first source has returned
ScrapeReddit_ThenMerge == pc = "scrape_reddit" /\ Scrape("reddit", 1..3, "merge")

\* reddit_leads = await self.scrape_reddit()
ScrapeReddit == pc = "scrape_reddit" /\ Scrape("reddit", 1..3, "scrape_facebook")

\* facebook_leads = await self.scrape_facebook()
ScrapeFacebook == pc = "scrape_facebook" /\ Scrape("facebook", 1..2, "scrape_linkedin")

\* linkedin_leads = await self.scrape_linkedin()
ScrapeLinkedin == pc = "scrape_linkedin" /\ Scrape("linkedin", 1..3, "merge")

\* existing_urls, new_leads, self.leads.extend(new_leads)
MergeNewLeads ==
    /\ pc = "merge"
    /\ leads' = Merge(leads, batch)
    /\ pc' = "select"
    /\ UNCHANGED <<file, batch, queue, now, result, log, sent, failed, failedPrev,
                   everContacted, saveOutcome,
                   prevOutcome, frame>>

\* process_high_priority_leads up to its loop
SelectHighPriority ==
    /\ pc = "select"
    /\ queue' = HighPriorityLeads(config, leads)
    /\ pc' = "outreach"
    /\ UNCHANGED <<leads, file, batch, now, result, log, sent, failed, failedPrev,
                   everContacted, saveOutcome,
                   prevOutcome, frame>>

\* send_outreach returns True
SendOutreachSuccess ==
    /\ pc = "outreach"
    /\ queue # <<>>
    /\ leads' = [leads EXCEPT ![Head(queue)] = Contacted(leads[Head(queue)], now)]
    /\ sent' = Append(sent, Head(queue))
    /\ queue' = Tail(queue)
    /\ everContacted' = everContacted \cup {leads[Head(queue)].profile_url}
    /\ UNCHANGED <<pc, file, batch, now, result, log, failed, failedPrev,
                   saveOutcome,
                   prevOutcome, frame>>

\* send_outreach returns False: the simulated failure, or an exception it caught
SendOutreachFail ==
    /\ pc = "outreach"
    /\ queue # <<>>
    /\ sent' = Append(sent, Head(queue))
    /\ failed' = failed \cup {leads[Head(queue)].profile_url}
    /\ log' = log \cup {"send_failed"}
    /\ queue' = Tail(queue)
    /\ UNCHANGED <<pc, leads, file, batch, now, result, failedPrev,
                   everContacted, saveOutcome,
                   prevOutcome, frame>>

\* the loop of process_high_priority_leads ends
OutreachDone ==
    /\ pc = "outreach"
    /\ queue = <<>>
    /\ pc' = "save"
    /\ UNCHANGED <<leads, file, batch, queue, now, result, log, sent, failed,
                   failedPrev, everContacted, saveOutcome,
                   prevOutcome, frame>>

\* what save_leads leaves in the file when it succeeds: json.dump of every lead
Saved(store) == [kind |-> "list", data |-> store]

\* save_leads writes the whole store
SaveLeadsOk ==
    /\ pc = "save"
    /\ file' = Saved(leads)
    /\ saveOutcome' = "ok"
    /\ pc' = "report"
    /\ UNCHANGED <<leads, batch, queue, now, result, log, sent, failed, failedPrev,
                   everContacted, prevOutcome, frame>>

\* open(..., 'w') raises: the file is as it was; save_leads logs and returns
SaveLeadsOpenError ==
    /\ pc = "save"
    /\ saveOutcome' = "open_error"
    /\ log' = log \cup {"save_error"}
    /\ pc' = "report"
    /\ UNCHANGED <<leads, file, batch, queue, now, result, sent, failed, failedPrev,
                   everContacted, prevOutcome, frame>>

\* json.dump raises after open(..., 'w') truncated the file: a partial document
\* is left; save_leads logs and returns
SaveLeadsWriteError ==
    /\ pc = "save"
    /\ file' = [kind |-> "malformed", data |-> <<>>]
    /\ saveOutcome' = "write_error"
    /\ log' = log \cup {"save_error"}
    /\ pc' = "report"
    /\ UNCHANGED <<leads, batch, queue, now, result, sent, failed, failedPrev,
                   everContacted, prevOutcome, frame>>

\* what run_daily_cycle gives its caller once save_leads has returned
CycleResult(outcome) == "report"

\* generate_daily_report, save_daily_report, return report
ReturnReport ==
    /\ pc = "report"
    /\ result' = CycleResult(saveOutcome)
    /\ pc' = "done"
    /\ UNCHANGED <<leads, file, batch, queue, now, log, sent, failed, failedPrev,
                   everContacted, saveOutcome,
                   prevOutcome, frame>>

\* a loop whose except clause is missing: an exception of the cycle ends it
LoopContinuesAfter_ReturnOnly == {"done"}

\* the ways a call of run_daily_cycle can end after which the while True loop
\* of run_continuous goes round again: it returned, or it raised an Exception
LoopContinuesAfter == {"done", "raised"}

\* the next call of run_daily_cycle: a day later after a cycle that returned,
\* within the day or a day later after one that raised
NextCycle ==
    /\ pc \in LoopContinuesAfter
    /\ \E later \in (IF pc = "done" THEN {now + 1} ELSE {now, now + 1}) :
         /\ later <= MaxDay
         /\ now' = later
    /\ pc' = "idle"
    /\ batch' = <<>>
    /\ queue' = <<>>
    /\ result' = "none"
    /\ log' = {}
    /\ sent' = <<>>
    /\ failed' = {}
    /\ failedPrev' = failed
    /\ saveOutcome' = "none"
    /\ prevOutcome' = pc
    /\ UNCHANGED <<leads, file, everContacted, frame>>

Next ==
    \/ LoadLeads
    \/ LoadRaises
    \/ ScrapeReddit
    \/ ScrapeFacebook
    \/ ScrapeLinkedin
    \/ MergeNewLeads
    \/ SelectHighPriority
    \/ SendOutreachSuccess
    \/ SendOutreachFail
    \/ OutreachDone
    \/ SaveLeadsOk
    \/ SaveLeadsOpenError
    \/ SaveLeadsWriteError
    \/ ReturnReport
    \/ NextCycle

Spec == Init /\ [][Next]_vars

\* the agent as main() builds it, with the largest daily cap of the model
LoopInit == Init /\ config.max_outreach_per_day = MaxOutreachCap

\* the event loop runs the one task to the end of each await, and each sleep
\* of run_continuous ends: a step that can be taken is eventually taken
FairSpec == LoopInit /\ [][Next]_vars /\ WF_vars(Next)

(***************************************************************************)
(* Claims about score_lead (checked under ScoreSpec).                      *)
(***************************************************************************)
Max(a, b) == IF a > b THEN a ELSE b

\* k occurs in s case-insensitively, as a substring (k is lower case)
Occurs(k, s) ==
    \E i \in 1..Len(s) :
        \A j \in 1..Len(k) : i + j - 1 <= Len(s) /\ LowerChar(s[i + j - 1]) = k[j]

RemoveAt(seq, i) == SubSeq(seq, 1, i - 1) \o SubSeq(seq, i + 1, Len(seq))

\* the configuration with the i-th high-priority keyword taken out of it
WithoutHigh(cfg, i) ==
    [cfg EXCEPT !.targets.high_priority = RemoveAt(cfg.targets.high_priority, i)]

ArgSum(cfg) ==
    ScoreSum(cfg, s_args.content, s_args.platform, s_args.location, s_args.demographics)

ArgScore(cfg) ==
    score_lead(cfg, s_args.content, s_args.platform, s_args.location,
               s_args.demographics).score

HighTag(k) == <<"high_priority_">> \o [i \in 1..Len(k) |-> IF k[i] = " " THEN "_" ELSE k[i]]

\* C6: the score score_lead returns is an integer in [0, 100], equal to the sum
\* of the triggered weights clamped to that range, under every weight configuration.
C6_ScoreInRange ==
    s_pc = "scored" =>
        /\ s_result.score \in 0..100
        /\ s_result.score = Max(0, Min(ArgSum(config), 100))

Urls(store) == {store[i].profile_url : i \in DOMAIN store}

\* C1: after the merge no two leads of the store have the same profile_url, for
\* every incoming batch, also one in which two leads share a profile_url that is
\* not in the store yet.
C1_UniqueProfileUrls ==
    m_pc = "merged" => NoDuplicateUrls(m_result)

\* C2: the merge step of the cycle leaves every existing record as it was, field
\* by field and in place, and does not raise the number of store entries of any
\* profile_url that was already in the store.
C2_ExistingRecordKept ==
    [][ (pc = "merge" /\ pc' = "select") =>
            /\ Len(leads') >= Len(leads)
            /\ \A i \in DOMAIN leads : leads'[i] = leads[i]
            /\ \A u \in Urls(leads) : CountUrl(leads', u) = CountUrl(leads, u) ]_vars

\* a merge has just dropped an incoming lead that differs from the stored record
\* of the same profile_url
C2_Witness ==
    /\ pc = "select"
    /\ \E i \in DOMAIN leads, j \in DOMAIN batch :
          /\ leads[i].profile_url = batch[j].profile_url
          /\ leads[i].created_at < batch[j].created_at
          /\ leads[i].status = "contacted"
          /\ CountUrl(leads, batch[j].profile_url) = 1

StatusesOf(store, u) == {store[i].status : i \in {k \in DOMAIN store : store[k].profile_url = u}}

\* C3: a lead that has been contacted is never 'new' again, in memory or in the
\* leads file, and a status only changes in a successful send_outreach.
C3_StatusNeverReverts ==
    /\ [](\A u \in everContacted : "new" \notin StatusesOf(leads, u))
    /\ [][ \A u \in Urls(file.data) :
              "contacted" \in StatusesOf(file.data, u) => "new" \notin StatusesOf(file'.data, u) ]_vars
    /\ [][ (\E u \in Urls(leads) \cap Urls(leads') :
               StatusesOf(leads, u) # StatusesOf(leads', u))
           => (pc = "outreach" /\ everContacted' # everContacted) ]_vars

\* C4: once a cycle has merged and saved, no lead older than the retention window
\* is left in the store or in the leads file.
C4_RetentionPruned ==
    (pc = "done" /\ saveOutcome = "ok") =>
        /\ \A i \in DOMAIN leads : now - leads[i].created_at <= RetentionDays
        /\ \A i \in DOMAIN file.data : now - file.data[i].created_at <= RetentionDays

LastN(seq, n) == SubSeq(seq, Len(seq) - n + 1, Len(seq))

\* C5: the leads file never holds more than the maximum store size; a save of a
\* larger store writes exactly the most recently added entries up to the maximum.
C5_StoreSizeBounded ==
    /\ Len(file.data) <= MaxStoreSize
    /\ (pc = "report" /\ saveOutcome = "ok" /\ Len(leads) > MaxStoreSize)
          => file.data = LastN(leads, MaxStoreSize)

IsNonIncreasing(store, idx) ==
    \A a, b \in DOMAIN idx : a < b => store[idx[a]].score >= store[idx[b]].score

Selected == Range(sent) \cup Range(queue)

\* C8: a failed send leaves the lead's status 'new' and its last_contact as it
\* was, the lead is not sent to again in the same cycle, and when the next cycle
\* selects its outreach the lead is in the store, 'new' and of high priority.
C8_FailedSendRetriedNextCycle ==
    /\ [][ (pc = "outreach" /\ failed' # failed) =>
              /\ leads' = leads
              /\ leads[Head(queue)].status = "new"
              /\ Head(queue) \notin Range(sent) ]_vars
    /\ [](pc = "select" =>
              \A u \in failedPrev : \E i \in Eligible(leads) : leads[i].profile_url = u)

\* C9: the outreach pass sends only to leads that were 'new' when selected, in
\* order of non-increasing score, to at most max_outreach_per_day of them, and
\* every 'new' lead it leaves out scores no more than every lead it selected.
C9_RankedCappedOutreach ==
    pc = "outreach" =>
        /\ Len(sent) + Len(queue) <= config.max_outreach_per_day
        /\ IsNonIncreasing(leads, sent \o queue)
        /\ \A a, b \in DOMAIN (sent \o queue) : a # b => (sent \o queue)[a] # (sent \o queue)[b]
        /\ \A i \in Range(queue) : leads[i].status = "new"
        /\ \A i \in Range(sent) :
              \/ leads[i].status = "new"
              \/ leads[i].status = "contacted" /\ leads[i].last_contact = now
        /\ \A i \in DOMAIN leads :
              (leads[i].status = "new" /\ i \notin Selected)
                 => \A j \in Selected : leads[i].score <= leads[j].score

\* the cap has cut the selection: two leads of different scores were sent to and
\* a 'new' high-priority lead was left out
C9_Witness ==
    /\ pc = "outreach"
    /\ queue = <<>>
    /\ Len(sent) = 2
    /\ config.max_outreach_per_day = 2
    /\ leads[sent[1]].score > leads[sent[2]].score
    /\ \E i \in Eligible(leads) : i \notin Range(sent)

\* C10: when save_leads fails with an I/O error, the error is logged and the
\* cycle does not give its caller a normal report.
C10_SaveFailureReported ==
    (pc = "done" /\ saveOutcome \in {"open_error", "write_error"}) =>
        /\ "save_error" \in log
        /\ result # "report"

(***************************************************************************)
(* Claims about persistence, the merge order and the lead lifecycle.       *)
(***************************************************************************)
\* C11: whatever a cycle does, the leads file holds a complete store: each step
\* leaves the file as the last successful save wrote it or replaces it by the
\* complete current store; it is never empty, truncated or partly written.
C11_FileAlwaysComplete ==
    /\ [](file.kind # "malformed")
    /\ [][file' = file \/ file' = Saved(leads)]_vars

\* the store a cycle builds from nothing: the batch appended to an empty store
FromEmptyStore(found) == Merge(<<>>, found)

Survivors(existing, incoming) ==
    {j \in DOMAIN incoming : incoming[j].profile_url \notin Urls(existing)}

\* the k-th smallest position of a set of positions
Nth(positions, k) ==
    CHOOSE j \in positions : Cardinality({i \in positions : i < j}) = k - 1

\* C13: merging an empty batch returns the store as it was (same leads, same
\* fields, same order); for any batch the result is the store, unchanged and
\* in place, followed by the surviving incoming leads in their batch order.
C13_MergeAppendsInOrder ==
    m_pc = "merged" =>
        LET surv == Survivors(m_existing, m_incoming)
        IN  /\ m_incoming = <<>> => m_result = m_existing
            /\ Len(m_result) = Len(m_existing) + Cardinality(surv)
            /\ \A i \in DOMAIN m_existing : m_result[i] = m_existing[i]
            /\ \A k \in 1..Cardinality(surv) :
                   m_result[Len(m_existing) + k] = m_incoming[Nth(surv, k)]

\* a non-empty store merged with a batch of two different surviving leads
C13_Witness ==
    /\ m_pc = "merged"
    /\ m_existing # <<>>
    /\ Cardinality(Survivors(m_existing, m_incoming)) >= 2
    /\ \E j, k \in Survivors(m_existing, m_incoming) : m_incoming[j] # m_incoming[k]
    /\ Len(m_result) = Len(m_existing) + 2

\* every lead record the pipeline holds: in memory, in the scraped batch, on disk
AllLeads ==
    Range(leads) \cup Range(batch) \cup (IF file.kind = "list" THEN Range(file.data) ELSE {})

\* C14: in every state, every lead has a last_contact exactly when its status
\* is 'contacted'; a scraped lead starts 'new' with no last_contact; within a
\* cycle last_contact changes only in a successful send_outreach, together with
\* the status, and a failed send leaves the lead as it was.
C14_LastContactIffContacted ==
    /\ [](\A l \in AllLeads : (l.last_contact # 0) <=> (l.status = "contacted"))
    /\ [](\A l \in Range(batch) : l.status = "new" /\ l.last_contact = 0)
    /\ [][\A i \in DOMAIN leads \cap DOMAIN leads' :
            (pc # "idle" /\ leads'[i].last_contact # leads[i].last_contact)
                => /\ pc = "outreach" /\ queue # <<>> /\ i = Head(queue)
                   /\ leads[i].status = "new" /\ leads[i].last_contact = 0
                   /\ leads'[i].status = "contacted" /\ leads'[i].last_contact = now
                   /\ leads'[i].profile_url \notin failed']_vars
    /\ [][failed' \ failed # {} => leads' = leads]_vars

\* one lead contacted and another whose send failed, still 'new' with no
\* last_contact, in the same outreach round
C14_Witness ==
    /\ pc = "outreach"
    /\ \E i \in DOMAIN leads : leads[i].status = "contacted" /\ leads[i].last_contact = now
    /\ \E j \in DOMAIN leads :
          /\ leads[j].profile_url \in failed
          /\ leads[j].status = "new"
          /\ leads[j].last_contact = 0

\* the sources whose scrape has returned its leads into the batch
Delivered == {batch[i].platform : i \in DOMAIN batch}

ScrapePcs == {"scrape_reddit", "scrape_facebook", "scrape_linkedin"}

\* C15: the duplicate filter runs only after scrape_reddit, scrape_facebook and
\* scrape_linkedin have all returned and their results are one batch: while a
\* source is still to return the store is not touched, the merge step sees the
\* leads of all three sources, and the batch no longer grows once merged.
C15_MergeAfterAllScrapes ==
    /\ [](pc = "merge" => Delivered = Platforms)
    /\ [](pc \in ScrapePcs => Delivered # Platforms)
    /\ [][(pc \in ScrapePcs) => (leads' = leads)]_vars
    /\ [][(leads' # leads /\ pc \notin {"idle", "outreach"})
            => (pc = "merge" /\ pc' = "select" /\ Delivered = Platforms /\ batch' = batch)]_vars
    /\ [][(pc \notin ScrapePcs /\ batch' # batch) => batch' = <<>>]_vars

\* a merge has just added leads of all three sources to the store
C15_Witness ==
    /\ pc = "select"
    /\ Delivered = Platforms
    /\ Len(batch) >= 4
    /\ {leads[i].platform : i \in DOMAIN leads} = Platforms
    /\ \A l \in Range(batch) : l \in Range(leads)

\* the lead records in memory and on disk
StoreAndFile == Range(leads) \cup (IF file.kind = "list" THEN Range(file.data) ELSE {})

\* C16: a lead whose score is below 20 is never selected, never sent outreach
\* and never 'contacted', in any cycle and however many outreach slots are
\* left; its score is the one it was created with, so it stays 'new' for as
\* long as it is in the store.
C16_LowScoreNeverContacted ==
    /\ [](\A l \in StoreAndFile :
            l.score < HighPriorityThreshold
                => /\ l.status = "new"
                   /\ l.last_contact = 0
                   /\ l.profile_url \notin everContacted
                   /\ l.profile_url \notin failed)
    /\ [](\A k \in DOMAIN queue : leads[queue[k]].score >= HighPriorityThreshold)
    /\ [](\A k \in DOMAIN sent : leads[sent[k]].score >= HighPriorityThreshold)
    /\ [][\A i \in DOMAIN leads \cap DOMAIN leads' :
            leads'[i].profile_url = leads[i].profile_url
                => leads'[i].score = leads[i].score]_vars

\* a low-score lead stored in an earlier cycle is still 'new' after an outreach
\* round that left slots of the daily cap unused
C16_Witness ==
    /\ pc = "save"
    /\ Len(sent) < config.max_outreach_per_day
    /\ \E l \in Range(leads) :
          /\ l.score < HighPriorityThreshold
          /\ l.created_at < now
          /\ l.status = "new"
    /\ \E l \in Range(leads) : l.status = "contacted"

\* what load_leads reads back from the file as it stands
OnDisk == IF file.kind = "list" THEN file.data ELSE <<>>

\* C17: in continuous mode a cycle that raised does not end the loop: after
\* every cycle, returned or raised, the next step is a new attempt (a day
\* later after a return, within the day or a day later after an exception),
\* that attempt eventually comes, and it begins by loading the store from the
\* leads file, whatever the earlier cycle left in memory.
C17_LoopSurvivesFailedCycle ==
    /\ [][(pc \in {"done", "raised"})
            => /\ pc' = "idle"
               /\ now' \in (IF pc = "done" THEN {now + 1} ELSE {now, now + 1})
               /\ file' = file]_vars
    /\ [][pc = "idle" => (pc' = "raised" \/ (pc' = "scrape_reddit" /\ leads' = OnDisk))]_vars
    /\ [](pc \in {"scrape_reddit", "scrape_facebook", "scrape_linkedin", "merge"}
            => leads = OnDisk)
    /\ (pc = "raised" \/ (pc = "done" /\ now < MaxDay)) ~> (pc = "idle")

\* a new attempt is starting after a cycle that raised, while the store in
\* memory is not what the leads file holds
C17_Witness ==
    /\ pc = "idle"
    /\ prevOutcome = "raised"
    /\ file.kind = "list"
    /\ leads # file.data

====
